---- MODULE Spec2Model ----
(***************************************************************************)
(* Model of zfdb's Engine (src/zfdb/core.py): ZIP archives used as a       *)
(* record store.  A container is the archive's member list in central-     *)
(* directory order; a member is a name and its bytes.  Names are sequences *)
(* of one-character strings, payloads are str (code points) or bytes.     *)
(*                                                                         *)
(* Library behaviour the code relies on (CPython zipfile / os.path, POSIX):*)
(*  - ZipFile.write stores a member under the normalised arcname          *)
(*    (os.path.normpath, leading separators stripped);                     *)
(*  - ZipFile.namelist lists every member, duplicates included;            *)
(*  - ZipFile.read(name) reads the LAST member stored under name;          *)
(*  - ZipFile.extractall writes members in order, a later member of the    *)
(*    same path overwriting an earlier one;                                *)
(*  - a failed `with ZipFile(path, 'a')` block that wrote nothing leaves   *)
(*    an existing archive as it was;                                       *)
(*  - text-mode files encode str as UTF-8 and reject bytes (TypeError);    *)
(*  - iteration order of a set of str is arbitrary.                        *)
(* Name domain: the alphabet has no '.', so '.' and '..' path components   *)
(* do not occur, no name is empty, and no name is a directory prefix of    *)
(* another.                                                                *)
(***************************************************************************)
EXTENDS Integers, Sequences, FiniteSets, TLC

VARIABLES files, handles, connections, last, inserted, dropped, inflight,
          databases

vars == <<files, handles, connections, last, inserted, dropped, inflight,
          databases>>

----------------------------------------------------------------------------
(* Bounds *)

\* longest member list the append paths (insert, update without rebuild) build
MaxEntries == 2
\* longest member payload, in bytes, that insert and update build
MaxData == 2
\* number of Database handles get_db hands out
MaxHandles == 1

----------------------------------------------------------------------------
(* Domains of the inputs *)

DBNames == {"t"}

\* 'a', 'd/a' and '/a'
Names == { <<"a">>, <<"d", "/", "a">>, <<"/", "a">> }

Str(v) == [kind |-> "str", val |-> v]
Bytes(v) == [kind |-> "bytes", val |-> v]

\* 'é' (U+00E9), b'' and b'x'
Payloads == { Str(<<233>>), Bytes(<<>>), Bytes(<<120>>) }

\* a path of the storage folder: a missing file, or an archive and its members
NoFile == [exists |-> FALSE, members |-> <<>>]
File(members) == [exists |-> TRUE, members |-> members]
NoName == <<>>
NoData == [kind |-> "none", val |-> <<>>]

----------------------------------------------------------------------------
(* Text and path conversions *)

\* str.encode('utf-8') of one code point below U+0800
Utf8Char(cp) ==
    IF cp < 128 THEN <<cp>>
    ELSE << 192 + (cp \div 64), 128 + (cp % 64) >>

RECURSIVE Utf8Encode(_)
Utf8Encode(s) ==
    IF s = <<>> THEN <<>> ELSE Utf8Char(Head(s)) \o Utf8Encode(Tail(s))

\* bytes.decode('utf-8') for one- and two-byte sequences: ok is FALSE for a
\* UnicodeDecodeError (anything else is outside the modelled code points)
RECURSIVE Utf8Decode(_)
Utf8Decode(b) ==
    IF b = <<>> THEN [ok |-> TRUE, val |-> <<>>]
    ELSE IF b[1] < 128 THEN
        LET rest == Utf8Decode(Tail(b))
        IN [ok |-> rest.ok, val |-> <<b[1]>> \o rest.val]
    ELSE IF b[1] >= 194 /\ b[1] < 224 /\ Len(b) >= 2
            /\ b[2] >= 128 /\ b[2] < 192 THEN
        LET rest == Utf8Decode(Tail(Tail(b)))
        IN [ok |-> rest.ok, val |-> << (b[1] - 192) * 64 + (b[2] - 128) >> \o rest.val]
    ELSE [ok |-> FALSE, val |-> <<>>]

\* what file.write(data) puts on disk: 'w'/'a' encode str, 'bw'/'ba' keep bytes
encode(data) == IF data.kind = "str" THEN Utf8Encode(data.val) ELSE data.val

\* `not data`
IsEmpty(data) == data.kind = "none" \/ data.val = <<>>

\* s.split('/')
RECURSIVE SplitFrom(_, _, _)
SplitFrom(s, i, cur) ==
    IF i > Len(s) THEN <<cur>>
    ELSE IF s[i] = "/" THEN <<cur>> \o SplitFrom(s, i + 1, <<>>)
    ELSE SplitFrom(s, i + 1, Append(cur, s[i]))

Split(s) == SplitFrom(s, 1, <<>>)

\* '/'.join(parts)
RECURSIVE Join(_)
Join(parts) ==
    IF parts = <<>> THEN <<>>
    ELSE IF Len(parts) = 1 THEN parts[1]
    ELSE parts[1] \o <<"/">> \o Join(Tail(parts))

\* the components that are not '' (nor '.', absent from the alphabet)
RECURSIVE DropEmpty(_)
DropEmpty(parts) ==
    IF parts = <<>> THEN <<>>
    ELSE IF Head(parts) = <<>> \/ Head(parts) = <<".">> THEN DropEmpty(Tail(parts))
    ELSE <<Head(parts)>> \o DropEmpty(Tail(parts))

\* ZipInfo.from_file: normpath(arcname) with the leading separators stripped
ArcName(name) ==
    LET p == Join(DropEmpty(Split(name)))
    IN IF p = <<>> THEN <<".">> ELSE p

\* ZipFile._extract_member: the path under the target directory
ExtractPath(name) == Join(DropEmpty(Split(name)))

\* rec.split('/')[-1]
Basename(path) == Split(path)[Len(Split(path))]

----------------------------------------------------------------------------
(* The archive *)

Max(S) == CHOOSE x \in S : \A y \in S : y <= x

Member(n, d) == [name |-> n, data |-> d]

\* ZipFile.namelist()
namelist(c) == [i \in 1..Len(c) |-> c[i].name]

Range(s) == {s[i] : i \in 1..Len(s)}

\* ZipFile.read(name): NameToInfo keeps the last member stored under a name
\* (a KeyError when there is none: Has is FALSE)
Has(c, name) == \E i \in 1..Len(c) : c[i].name = name
zread(c, name) == c[Max({i \in 1..Len(c) : c[i].name = name})].data

\* ZipFile.extractall(tmp): the files under tmp, later members overwriting
extractall(c) ==
    [p \in {ExtractPath(c[i].name) : i \in 1..Len(c)} |->
        c[Max({i \in 1..Len(c) : ExtractPath(c[i].name) = p})].data]

\* the orders in which a set can be iterated
Orders(S) ==
    {f \in [1..Cardinality(S) -> S] : \A i, j \in 1..Cardinality(S) : f[i] = f[j] => i = j}

\* the outcome of a call: the exception raised ("none": it returned) and the
\* file at the database's path when the call ends
Result(e, f) == [err |-> e, file |-> f]

----------------------------------------------------------------------------
(* Engine *)

\* a gate that lets every handle through
_validate_connection_always(h) == TRUE

\* Engine._validate_connection
_validate_connection(h) == h \in connections

\* Engine._recreate: every file of `existing`, in iteration order, is written
\* to the new archive under the last component of its path
_recreate(tmp, existing) ==
    IF \E i \in 1..Len(existing) : existing[i] \notin DOMAIN tmp
    THEN Result("FileNotFoundError", NoFile)
    ELSE Result("none",
                File([i \in 1..Len(existing) |->
                        Member(ArcName(Basename(existing[i])), tmp[existing[i]])]))

\* a delete check that lets every name through
DeleteMissing_never(record_name, existing) == FALSE

\* Engine._rebuild, delete mode: `if record_name not in existing`
DeleteMissing(record_name, existing) == record_name \notin existing

\* Engine._rebuild of the file f; `order` is the order in which the set
\* `existing` is iterated.  The new archive replaces f only by the final move.
_rebuild(f, rebuild_mode, record_name, data, order) ==
    IF rebuild_mode \notin {"recreate", "delete", "update"}
    THEN Result("ValueError", f)
    ELSE IF ~f.exists THEN Result("FileNotFoundError", f)
    ELSE
    LET existing == Range(namelist(f.members))
        tmp == extractall(f.members)
    IN CASE rebuild_mode = "recreate" ->
              LET r == _recreate(tmp, order)
              IN IF r.err = "none" THEN r ELSE Result(r.err, f)
         [] rebuild_mode = "update" ->
              IF record_name = NoName \/ IsEmpty(data)
              THEN Result("RebuildFailedException", f)
              ELSE IF record_name \notin existing
              THEN Result("RecordNotExists", f)
              ELSE
              LET old == IF record_name \in DOMAIN tmp THEN tmp[record_name] ELSE <<>>
                  tmp2 == [p \in DOMAIN tmp \cup {record_name} |->
                             IF p = record_name THEN old \o encode(data) ELSE tmp[p]]
                  r == _recreate(tmp2, order)
              IN IF r.err = "none" THEN r ELSE Result(r.err, f)
         [] rebuild_mode = "delete" ->
              IF record_name = NoName
              THEN Result("RebuildFailedException", f)
              ELSE IF DeleteMissing(record_name, existing)
              THEN Result("RecordNotExists", f)
              ELSE IF record_name \notin DOMAIN tmp
              THEN Result("FileNotFoundError", f)
              ELSE
              LET tmp2 == [p \in DOMAIN tmp \ {record_name} |-> tmp[p]]
                  rest == SelectSeq(order, LAMBDA n : n # record_name)
                  r == _recreate(tmp2, rest)
              IN IF r.err = "none" THEN r ELSE Result(r.err, f)

\* ZipFile(path, 'a'): a missing file is created as an empty archive
OpenAppend(f) == IF f.exists THEN f ELSE File(<<>>)

\* write_record without the check for an existing member
write_record_nocheck(f, connected, record_name, data) ==
    IF ~connected THEN Result("ConnectorError", f)
    ELSE Result("none",
                File(Append(OpenAppend(f).members,
                            Member(ArcName(record_name), encode(data)))))

\* Engine.write_record
write_record(f, connected, record_name, data) ==
    IF ~connected THEN Result("ConnectorError", f)
    ELSE IF data.kind \notin {"str", "bytes"} THEN Result("ValueError", f)
    ELSE
    LET z == OpenAppend(f)
    IN IF record_name \in Range(namelist(z.members))
       THEN Result("RecordExists", z)
       ELSE Result("none",
                   File(Append(z.members, Member(ArcName(record_name), encode(data)))))

\* Engine.list_records
list_records(f, connected) ==
    IF ~connected THEN [err |-> "ConnectorError", names |-> <<>>]
    ELSE IF ~f.exists THEN [err |-> "FileNotFoundError", names |-> <<>>]
    ELSE [err |-> "none", names |-> namelist(f.members)]

\* Database.count
count(f, connected) == Len(list_records(f, connected).names)

\* a request of find: one name (a str) or a sequence of names
One(name) == [kind |-> "str", names |-> <<name>>]
Many(names) == [kind |-> "seq", names |-> names]

Record(record_name, raw_data) == [record_name |-> record_name, raw |-> raw_data]

\* Record.raw
raw(rec) == rec.raw

\* Record.to_text
to_text(rec) == Utf8Decode(rec.raw)

\* the tuple (name,) that read_records makes of a str request
Tuple(names) == [kind |-> "tuple", names |-> names]

\* a read_records that lets the KeyError of a missing name out
read_records_strict(f, connected, request) ==
    IF ~connected THEN [err |-> "ConnectorError", records |-> <<>>]
    ELSE IF ~f.exists THEN [err |-> "FileNotFoundError", records |-> <<>>]
    ELSE
    LET record_names ==
            IF request.names = <<>> \/ request = One(NoName)
            THEN namelist(f.members) ELSE request.names
    IN IF \E i \in 1..Len(record_names) : ~Has(f.members, record_names[i])
       THEN [err |-> "KeyError", records |-> <<>>]
       ELSE [err |-> "none",
             records |-> [i \in 1..Len(record_names) |->
                             Record(Many(record_names),
                                    zread(f.members, record_names[i]))]]

\* Engine.read_records.  An empty request lists every member.  Every Record
\* gets the whole collection of requested names as its record_name: the
\* tuple made of a str request, else the sequence itself.
read_records(f, connected, request) ==
    IF ~connected THEN [err |-> "ConnectorError", records |-> <<>>]
    ELSE IF ~f.exists THEN [err |-> "FileNotFoundError", records |-> <<>>]
    ELSE
    LET record_names ==
            IF request.names = <<>> \/ request = One(NoName)
            THEN namelist(f.members) ELSE request.names
        record_name ==
            IF request.kind = "str" /\ request # One(NoName)
            THEN Tuple(record_names) ELSE Many(record_names)
        found == SelectSeq(record_names, LAMBDA n : Has(f.members, n))
    IN [err |-> "none",
        records |-> [i \in 1..Len(found) |->
                        Record(record_name, zread(f.members, found[i]))]]

\* Engine._rebuild: tempfile.mkdtemp() follows the check of the mode, and
\* shutil.rmtree(tmp) is reached only when nothing was raised; result is
\* what the _rebuild call gave
_rebuild_tmp(rebuild_mode, result) ==
    /\ rebuild_mode \in {"recreate", "delete", "update"}
    /\ result.err # "none"

\* update_record that has already written the old data back to the archive
\* when the write of the new data fails
update_record_partial(f, connected, record_name, data, rebuild, order) ==
    IF ~connected THEN Result("ConnectorError", f)
    ELSE IF rebuild THEN _rebuild(f, "update", record_name, data, order)
    ELSE
    LET z == OpenAppend(f)
    IN IF record_name \notin Range(namelist(z.members))
       THEN Result("RecordNotExists", z)
       ELSE
       LET old == zread(z.members, record_name)
       IN IF data.kind = "bytes"
          THEN Result("none",
                      File(Append(z.members,
                                  Member(ArcName(record_name), old \o encode(data)))))
          ELSE Result("TypeError",
                      File(Append(z.members, Member(ArcName(record_name), old))))

\* Engine.update_record
update_record(f, connected, record_name, data, rebuild, order) ==
    IF ~connected THEN Result("ConnectorError", f)
    ELSE IF rebuild THEN _rebuild(f, "update", record_name, data, order)
    ELSE
    LET z == OpenAppend(f)
    IN IF record_name \notin Range(namelist(z.members))
       THEN Result("RecordNotExists", z)
       ELSE
       LET existing_data == read_records(z, connected, One(record_name)).records[1]
       IN IF data.kind = "bytes"
          THEN Result("none",
                      File(Append(z.members,
                                  Member(ArcName(record_name),
                                         raw(existing_data) \o encode(data)))))
          ELSE IF data.kind = "str"
          THEN Result("TypeError", z)
          ELSE Result("ValueError", z)

\* Engine.remove_record
remove_record(f, connected, record_name, order) ==
    IF ~connected THEN Result("ConnectorError", f)
    ELSE _rebuild(f, "delete", record_name, NoData, order)

\* a create_db that opens the path with 'w': an existing file is replaced
create_db_truncate(f) == Result("none", File(<<>>))

\* Engine.create_db: ZipFile(path, 'x')
create_db(f) ==
    IF f.exists THEN Result("DatabaseExists", f) ELSE Result("none", File(<<>>))

\* the name of a database's file in the storage folder: '<name>.zip'
FileName(database_name) == <<database_name, ".zip">>

\* Engine._list_databases: every file of the folder that ends in '.zip', cut
\* at its first '.zip' (the names of DBNames hold no '.zip')
_list_databases(fs) ==
    { Head(FileName(db)) :
        db \in { d \in DBNames : /\ fs[d].exists
                                  /\ FileName(d)[Len(FileName(d))] = ".zip" } }

\* Engine.drop_connectors: `del self.connections[id(database_obj)]`
drop_connectors(h) ==
    IF h \in connections
    THEN [err |-> "none", connections |-> connections \ {h}]
    ELSE [err |-> "KeyError", connections |-> connections]

\* Engine.drop_database: the connector is dropped before os.remove(path)
drop_database(f, h) ==
    IF ~_validate_connection(h)
    THEN [err |-> "ConnectorError", file |-> f, connections |-> connections]
    ELSE IF ~f.exists
    THEN [err |-> "NoSuchDatabaseError", file |-> f,
          connections |-> drop_connectors(h).connections]
    ELSE [err |-> "none", file |-> NoFile,
          connections |-> drop_connectors(h).connections]

----------------------------------------------------------------------------
(* State: files maps a database name to the file at its path, handles is    *)
(* the sequence of Database objects created so far (each one's name),       *)
(* connections the set of handles with a connector, last the latest call.   *)
(* inserted and dropped record what the caller has asked for: the names     *)
(* inserted and not deleted since, the databases dropped and not created    *)
(* since.  inflight is a rebuild between its read of the old archive and    *)
(* its move of the new one.  databases is the engine's attribute of that    *)
(* name.                                                                    *)

\* a call: connected tells whether the handle had a connector when the call
\* began, tmp whether the temporary directory it made is still there when it
\* ends, found which records a find returned
Call(op, h, db, name, data, rebuild, err, before) ==
    [op |-> op, h |-> h, db |-> db, name |-> name, data |-> data,
     rebuild |-> rebuild, err |-> err, before |-> before,
     connected |-> h \in connections,
     tmp |-> FALSE, request |-> Many(<<>>), found |-> <<>>]

\* no rebuild is under way
NoRebuild == [active |-> FALSE, db |-> CHOOSE db \in DBNames : TRUE,
              op |-> "none", h |-> 0, name |-> NoName, data |-> NoData,
              snapshot |-> NoFile, result |-> Result("none", NoFile)]

\* the model's bounds on what a call may build
Fits(f) ==
    /\ Len(f.members) <= MaxEntries
    /\ \A i \in 1..Len(f.members) : Len(f.members[i].data) <= MaxData

Init ==
    /\ files = [db \in DBNames |-> NoFile]
    /\ handles = <<>>
    /\ connections = {}
    /\ last = Call("none", 0, CHOOSE db \in DBNames : TRUE, NoName, NoData, FALSE, "none", NoFile)
    /\ inserted = {}
    /\ dropped = {}
    /\ inflight = NoRebuild
    /\ databases = _list_databases(files)

\* engine.create_db(db)
CreateDb(db) ==
    LET r == create_db(files[db])
    IN /\ files' = [files EXCEPT ![db] = r.file]
       /\ last' = Call("create_db", 0, db, NoName, NoData, FALSE, r.err, files[db])
       /\ UNCHANGED <<handles, connections>>

\* a get_db whose connectors are keyed by database name: every handle on
\* the database is connected again
GetDb_reopen(db) ==
    /\ handles' = Append(handles, db)
    /\ connections' = connections \cup {Len(handles) + 1}
                                   \cup {h \in 1..Len(handles) : handles[h] = db}
    /\ last' = Call("get_db", Len(handles) + 1, db, NoName, NoData, FALSE, "none", files[db])
    /\ UNCHANGED files

\* engine.get_db(db)
GetDb(db) ==
    /\ handles' = Append(handles, db)
    /\ connections' = connections \cup {Len(handles) + 1}
    /\ last' = Call("get_db", Len(handles) + 1, db, NoName, NoData, FALSE, "none", files[db])
    /\ UNCHANGED files

\* database.insert(name, data)
Insert(h, name, data) ==
    LET db == handles[h]
    IN \E r \in {write_record(files[db], _validate_connection(h), name, data)} :
       /\ Fits(r.file)
       /\ files' = [files EXCEPT ![db] = r.file]
       /\ last' = Call("insert", h, db, name, data, FALSE, r.err, files[db])
       /\ UNCHANGED <<handles, connections>>

\* the iteration orders of set(z.namelist()) that a call with this flag sees
\* (a call that does not rebuild iterates over no set)
RebuildOrders(f, rebuild) ==
    IF rebuild /\ f.exists THEN Orders(Range(namelist(f.members))) ELSE {<<>>}

\* database.update(name, data, rebuild)
Update(h, name, data, rebuild) ==
    LET db == handles[h]
    IN \E order \in RebuildOrders(files[db], rebuild) :
        \E r \in {update_record(files[db], _validate_connection(h), name, data,
                               rebuild, order)} :
           /\ Fits(r.file)
           /\ files' = [files EXCEPT ![db] = r.file]
           /\ last' = [Call("update", h, db, name, data, rebuild, r.err, files[db])
                         EXCEPT !.tmp = /\ _validate_connection(h) /\ rebuild
                                        /\ _rebuild_tmp("update", r)]
           /\ UNCHANGED <<handles, connections>>

\* database.delete(name)
Delete(h, name) ==
    LET db == handles[h]
    IN \E order \in RebuildOrders(files[db], TRUE) :
        \E r \in {remove_record(files[db], _validate_connection(h), name, order)} :
           /\ files' = [files EXCEPT ![db] = r.file]
           /\ last' = [Call("delete", h, db, name, NoData, FALSE, r.err, files[db])
                         EXCEPT !.tmp = /\ _validate_connection(h)
                                        /\ _rebuild_tmp("delete", r)]
           /\ UNCHANGED <<handles, connections>>

\* engine._rebuild(db, 'recreate'): compaction
Recreate(db) ==
    \E order \in RebuildOrders(files[db], TRUE) :
        \E r \in {_rebuild(files[db], "recreate", NoName, NoData, order)} :
           /\ files' = [files EXCEPT ![db] = r.file]
           /\ last' = [Call("recreate", 0, db, NoName, NoData, FALSE, r.err, files[db])
                         EXCEPT !.tmp = _rebuild_tmp("recreate", r)]
           /\ UNCHANGED <<handles, connections>>

\* database.close()
Close(h) ==
    LET r == drop_connectors(h)
    IN /\ connections' = r.connections
       /\ last' = Call("close", h, handles[h], NoName, NoData, FALSE, r.err,
                       files[handles[h]])
       /\ UNCHANGED <<files, handles>>

\* database.drop()
Drop(h) ==
    LET db == handles[h]
        r == drop_database(files[db], h)
    IN /\ files' = [files EXCEPT ![db] = r.file]
       /\ connections' = r.connections
       /\ last' = Call("drop", h, db, NoName, NoData, FALSE, r.err, files[db])
       /\ UNCHANGED handles

\* database.records()
Records(h) ==
    LET db == handles[h]
        r == list_records(files[db], _validate_connection(h))
    IN /\ last' = Call("records", h, db, NoName, NoData, FALSE, r.err, files[db])
       /\ UNCHANGED <<files, handles, connections>>

\* database.count()
Count(h) ==
    LET db == handles[h]
        r == list_records(files[db], _validate_connection(h))
    IN /\ last' = Call("count", h, db, NoName, NoData, FALSE, r.err, files[db])
       /\ UNCHANGED <<files, handles, connections>>

\* database.find(request)
Find(h, request) ==
    LET db == handles[h]
        r == read_records(files[db], _validate_connection(h), request)
    IN /\ last' = [Call("find", h, db, NoName, NoData, FALSE, r.err, files[db])
                     EXCEPT !.request = request, !.found = r.records]
       /\ UNCHANGED <<files, handles, connections>>

\* what the record operations leave alone
NoHistory == UNCHANGED <<inserted, dropped, inflight, databases>>

Next ==
    \/ \E db \in DBNames : CreateDb(db) /\ NoHistory
    \/ \E db \in DBNames : Len(handles) < MaxHandles /\ GetDb(db) /\ NoHistory
    \/ \E h \in 1..Len(handles), name \in Names, data \in Payloads :
          Insert(h, name, data) /\ NoHistory
    \/ \E h \in 1..Len(handles), name \in Names, data \in Payloads, rebuild \in BOOLEAN :
          Update(h, name, data, rebuild) /\ NoHistory
    \/ \E h \in 1..Len(handles), name \in Names : Delete(h, name) /\ NoHistory
    \/ \E db \in DBNames : Recreate(db) /\ NoHistory

Spec == Init /\ [][Next]_vars

----------------------------------------------------------------------------
(* find, over containers built by insert, update and delete *)

\* 'a', 'd/a'; b'x' and b'y'
FindNames == { <<"a">>, <<"d", "/", "a">> }
FindPayloads == { Bytes(<<120>>), Bytes(<<121>>) }

\* find('a'), find('d/a'), find([]), find(['a', 'd/a']), find(['d/a', 'a'])
Requests ==
    { One(<<"a">>), One(<<"d", "/", "a">>), Many(<<>>),
      Many(<< <<"a">>, <<"d", "/", "a">> >>),
      Many(<< <<"d", "/", "a">>, <<"a">> >>) }

NextFind ==
    \/ \E db \in DBNames : CreateDb(db) /\ NoHistory
    \/ \E db \in DBNames : Len(handles) < MaxHandles /\ GetDb(db) /\ NoHistory
    \/ \E h \in 1..Len(handles), name \in FindNames, data \in FindPayloads :
          Insert(h, name, data) /\ NoHistory
    \/ \E h \in 1..Len(handles), name \in FindNames, data \in FindPayloads :
          Update(h, name, data, FALSE) /\ NoHistory
    \/ \E h \in 1..Len(handles), name \in FindNames : Delete(h, name) /\ NoHistory
    \/ \E h \in 1..Len(handles), request \in Requests :
          Find(h, request) /\ NoHistory

SpecFind == Init /\ [][NextFind]_vars

----------------------------------------------------------------------------
(* The names inserted and not deleted since, next to the container *)

\* the names inserted and not deleted after a call
Inserted(op, name, err) ==
    IF err # "none" THEN inserted
    ELSE IF op = "insert" THEN inserted \cup {name}
    ELSE IF op = "delete" THEN inserted \ {name}
    ELSE inserted

NameHistory == /\ inserted' = Inserted(last'.op, last'.name, last'.err)
               /\ UNCHANGED <<dropped, inflight, databases>>

NextNames ==
    \/ \E db \in DBNames : CreateDb(db) /\ NameHistory
    \/ \E db \in DBNames : Len(handles) < MaxHandles /\ GetDb(db) /\ NameHistory
    \/ \E h \in 1..Len(handles), name \in Names, data \in FindPayloads :
          Insert(h, name, data) /\ NameHistory
    \/ \E h \in 1..Len(handles), name \in Names, data \in FindPayloads,
             rebuild \in BOOLEAN :
          Update(h, name, data, rebuild) /\ NameHistory
    \/ \E h \in 1..Len(handles), name \in Names : Delete(h, name) /\ NameHistory
    \/ \E db \in DBNames : Recreate(db) /\ NameHistory

SpecNames == Init /\ [][NextNames]_vars

----------------------------------------------------------------------------
(* Connectors: several handles on one database, closed and dropped.  A      *)
(* handle is the index of its Database object: id() of an object the caller *)
(* still holds is not given to another object.                              *)

\* number of Database handles get_db hands out here
MaxOpen == 2

\* 'a' and b'x'
HandleNames == { <<"a">> }
HandlePayloads == { Bytes(<<120>>) }

\* the databases dropped and not created since
Dropped(op, db, err) ==
    IF err # "none" THEN dropped
    ELSE IF op = "drop" THEN dropped \cup {db}
    ELSE IF op = "create_db" THEN dropped \ {db}
    ELSE dropped

History == /\ dropped' = Dropped(last'.op, last'.db, last'.err)
           /\ UNCHANGED <<inserted, inflight, databases>>

NextHandles ==
    \/ \E db \in DBNames : CreateDb(db) /\ History
    \/ \E db \in DBNames : Len(handles) < MaxOpen /\ GetDb(db) /\ History
    \/ \E h \in 1..Len(handles) : Close(h) /\ History
    \/ \E h \in 1..Len(handles) : Drop(h) /\ History
    \/ \E h \in 1..Len(handles), name \in HandleNames, data \in HandlePayloads :
          Insert(h, name, data) /\ History
    \/ \E h \in 1..Len(handles), name \in HandleNames, data \in HandlePayloads,
             rebuild \in BOOLEAN :
          Update(h, name, data, rebuild) /\ History
    \/ \E h \in 1..Len(handles), name \in HandleNames : Delete(h, name) /\ History
    \/ \E h \in 1..Len(handles) : Records(h) /\ History
    \/ \E h \in 1..Len(handles) : Count(h) /\ History
    \/ \E h \in 1..Len(handles), name \in HandleNames : Find(h, One(name)) /\ History

SpecHandles == Init /\ [][NextHandles]_vars

----------------------------------------------------------------------------
(* Two writers on one path.  A rebuild reads the old archive, builds the    *)
(* new one in its temporary directory, and moves it over the path; another  *)
(* writer's insert may run between the read and the move.                   *)

\* 'a' and 'b'
RaceNames == { <<"a">>, <<"b">> }

\* the rebuilds a writer starts: delete(name), update(name, data, rebuild=True)
RebuildCalls ==
    { [op |-> "delete", mode |-> "delete", name |-> n, data |-> NoData] : n \in RaceNames }
    \cup { [op |-> "update", mode |-> "update", name |-> n, data |-> d] :
             n \in RaceNames, d \in HandlePayloads }

\* Engine._rebuild up to the new archive in the temporary directory: what is
\* raised there ends the call
RebuildRead(h, call) ==
    LET db == handles[h]
    IN /\ ~inflight.active
       /\ _validate_connection(h)
       /\ \E order \in RebuildOrders(files[db], TRUE) :
            \E r \in {_rebuild(files[db], call.mode, call.name, call.data, order)} :
               /\ Fits(r.file)
               /\ inflight' = [active |-> r.err = "none", db |-> db, op |-> call.op,
                               h |-> h, name |-> call.name, data |-> call.data,
                               snapshot |-> files[db], result |-> r]
               /\ last' = [Call(IF r.err = "none" THEN "read" ELSE call.op,
                                h, db, call.name, call.data, TRUE, r.err, files[db])
                             EXCEPT !.tmp = r.err # "none"]
       /\ UNCHANGED <<files, handles, connections, inserted, dropped, databases>>

\* a move that builds the new archive from the file at the path as it is now
RebuildMove_reread ==
    /\ inflight.active
    /\ \E order \in RebuildOrders(files[inflight.db], TRUE) :
          LET r == _rebuild(files[inflight.db],
                            IF inflight.op = "delete" THEN "delete" ELSE "update",
                            inflight.name, inflight.data, order)
          IN /\ r.err = "none"
             /\ files' = [files EXCEPT ![inflight.db] = r.file]
    /\ inflight' = [inflight EXCEPT !.active = FALSE]
    /\ last' = Call(inflight.op, inflight.h, inflight.db, inflight.name,
                    inflight.data, TRUE, "none", files[inflight.db])
    /\ inserted' = Inserted(inflight.op, inflight.name, "none")
    /\ UNCHANGED <<handles, connections, dropped, databases>>

\* Engine._rebuild: shutil.move(tmp_db, path), shutil.rmtree(tmp)
RebuildMove ==
    /\ inflight.active
    /\ files' = [files EXCEPT ![inflight.db] = inflight.result.file]
    /\ inflight' = [inflight EXCEPT !.active = FALSE]
    /\ last' = Call(inflight.op, inflight.h, inflight.db, inflight.name,
                    inflight.data, TRUE, "none", files[inflight.db])
    /\ inserted' = Inserted(inflight.op, inflight.name, "none")
    /\ UNCHANGED <<handles, connections, dropped, databases>>

NextRace ==
    \/ \E db \in DBNames : CreateDb(db) /\ NoHistory
    \/ \E db \in DBNames :
          Len(handles) < MaxOpen /\ GetDb(db) /\ NoHistory
    \/ \E h \in 1..Len(handles), name \in RaceNames, data \in HandlePayloads :
          Insert(h, name, data) /\ NameHistory
    \/ \E h \in 1..Len(handles), call \in RebuildCalls : RebuildRead(h, call)
    \/ RebuildMove

SpecRace == Init /\ [][NextRace]_vars

\* the file the latest call worked on
Current == files[last.db]

TypeOK ==
    /\ \A db \in DBNames : Fits(files[db])
    /\ \A db \in DBNames : \A i \in 1..Len(files[db].members) :
          files[db].members[i].name = ArcName(files[db].members[i].name)

----------------------------------------------------------------------------
(* Properties.  `last` is the latest call, last.before the file at the      *)
(* database's path when it began, Current that file now.                    *)

Connected == last.h \in connections

\* database.find(name) through an open handle
Get(f, name) == read_records(f, TRUE, One(name)).records

\* the names list() shows, as a set
Listed(f) == Range(namelist(f.members))

\* C1: after insert(name, payload) of a name not in the container succeeds,
\* find(name) returns one record whose raw bytes are the payload (the UTF-8
\* bytes of a text payload) and whose text view is the original text.
C1_InsertThenGet ==
    (last.op = "insert" /\ last.err = "none" /\ Connected
        /\ last.name \notin Listed(last.before))
    => /\ Len(Get(Current, last.name)) = 1
       /\ raw(Get(Current, last.name)[1]) = encode(last.data)
       /\ last.data.kind = "str"
            => to_text(Get(Current, last.name)[1]) = [ok |-> TRUE, val |-> last.data.val]

\* C2: insert of a name that is already in the container fails with
\* RecordExists and leaves the member list and every payload as they were.
C2_DuplicateInsertRejected ==
    (last.op = "insert" /\ Connected /\ last.before.exists
        /\ last.name \in Listed(last.before))
    => /\ last.err = "RecordExists"
       /\ Current = last.before

C2_Witness ==
    /\ last.op = "insert" /\ last.err = "RecordExists"
    /\ last.name \in Listed(last.before)
    /\ Current.members # <<>>

\* C3: after update(name, new_payload) succeeds, find(name) returns one record
\* whose payload is new_payload, in both update modes.
C3_UpdateThenGet ==
    (last.op = "update" /\ last.err = "none")
    => /\ Len(Get(Current, last.name)) = 1
       /\ raw(Get(Current, last.name)[1]) = encode(last.data)

\* C4: list() contains every record name at most once, and a successful
\* update does not change the number of listed records.
C4_NoDuplicateNames ==
    /\ \A db \in DBNames :
          Cardinality(Listed(files[db])) = Len(namelist(files[db].members))
    /\ (last.op = "update" /\ last.err = "none")
          => count(Current, TRUE) = count(last.before, TRUE)

\* C5: after delete(name) of an existing record succeeds, find(name) is empty
\* and list() does not contain name.
C5_DeleteThenGet ==
    (last.op = "delete" /\ last.err = "none" /\ last.name \in Listed(last.before))
    => /\ Get(Current, last.name) = <<>>
       /\ last.name \notin Listed(Current)

\* C6: delete(name) leaves every other record retrievable under its own name
\* with the same bytes.
C6_DeleteFrame ==
    (last.op = "delete" /\ last.before.exists)
    => \A n \in Listed(last.before) \ {last.name} :
          /\ Has(Current.members, n)
          /\ zread(Current.members, n) = zread(last.before.members, n)

\* C7: update(name, data) leaves the payload of every other record and the
\* set of listed names as they were, in both update modes.
C7_UpdateFrame ==
    (last.op = "update" /\ last.before.exists)
    => /\ Listed(Current) = Listed(last.before)
       /\ \A n \in Listed(last.before) \ {last.name} :
             /\ Has(Current.members, n)
             /\ zread(Current.members, n) = zread(last.before.members, n)

\* C8: update of a name that is not in the container fails with
\* RecordNotExists in both update modes and leaves the container as it was.
C8_UpdateMissing ==
    (last.op = "update" /\ Connected /\ last.before.exists
        /\ last.name \notin Listed(last.before))
    => /\ last.err = "RecordNotExists"
       /\ Current = last.before

\* C9 (as stated): delete of a name that is absent from the container raises
\* nothing, returns True and leaves the records and payloads as they were.
C9_DeleteMissingIsNoOp ==
    (last.op = "delete" /\ Connected /\ last.before.exists
        /\ last.name \notin Listed(last.before))
    => /\ last.err = "none"
       /\ Current = last.before

\* C9 (amended): delete of a name that is absent from the container fails
\* with RecordNotExists and leaves the records and payloads as they were.
C9_DeleteMissingRejected ==
    (last.op = "delete" /\ Connected /\ last.before.exists
        /\ last.name \notin Listed(last.before))
    => /\ last.err = "RecordNotExists"
       /\ Current = last.before

C9_Witness ==
    /\ last.op = "delete" /\ last.err = "RecordNotExists"
    /\ last.name \notin Listed(last.before)
    /\ last.before.members # <<>>

\* C10: when an update, a delete or a rebuild of an existing container ends
\* in an error, the container's member list and payloads are what they were
\* before the call.
C10_FailedCallKeepsContainer ==
    (last.op \in {"update", "delete", "recreate"} /\ last.err # "none"
        /\ last.before.exists)
    => Current = last.before

C10_Witness ==
    /\ last.op = "update" /\ last.err = "TypeError"
    /\ last.name \in Listed(last.before)
    /\ Current = last.before

\* C11: when a rebuild (update with rebuild, delete, recreate) ends in an
\* error, the temporary directory it made is gone when the call returns.
C11_FailedRebuildRemovesTmp ==
    (last.op \in {"update", "delete", "recreate"} /\ last.err # "none")
    => ~last.tmp

\* the records find shows for every name, and the listed names, of a file
SameContent(f, g) ==
    /\ Listed(f) = Listed(g)
    /\ \A n \in Listed(f) \cup Names : Get(f, n) = Get(g, n)

\* C14: compaction keeps list() and every record's payload, and compacting
\* a second time gives the content of compacting once.
C14_CompactPreservesContent ==
    (last.op = "recreate" /\ last.err = "none")
    => /\ SameContent(Current, last.before)
       /\ \A order \in RebuildOrders(Current, TRUE) :
             SameContent(_rebuild(Current, "recreate", NoName, NoData, order).file,
                         Current)

\* C18: for every existing record and payload, update with rebuild=False and
\* update with rebuild=True end the same way, and when they succeed find
\* returns the same for every name.
C18_UpdateModesEquivalent ==
    \A db \in DBNames : \A n \in Listed(files[db]) : \A d \in Payloads :
        \A order \in RebuildOrders(files[db], TRUE) :
            LET plain == update_record(files[db], TRUE, n, d, FALSE, <<>>)
                rebuilt == update_record(files[db], TRUE, n, d, TRUE, order)
            IN /\ plain.err = rebuilt.err
               /\ plain.err = "none" => SameContent(plain.file, rebuilt.file)

\* the operations that go through the connector gate
GateOps == {"records", "find", "count", "insert", "update", "delete", "drop"}

\* C12: an operation through a handle without a connector fails with
\* ConnectorError, and the database file is neither modified nor created.
C12_ConnectorGate ==
    (last.op \in GateOps /\ ~last.connected)
    => /\ last.err = "ConnectorError"
       /\ Current = last.before

C12_Witness ==
    /\ last.op = "insert" /\ ~last.connected
    /\ last.err = "ConnectorError"
    /\ ~Current.exists

\* C13: a handle without a connector never gets one again, and get_db
\* returns a handle that did not exist before.
C13_ClosedIsTerminal ==
    [][ /\ \A h \in 1..Len(handles) : h \notin connections => h \notin connections'
        /\ last'.op = "get_db" => last'.h \notin 1..Len(handles) ]_vars

C13_Witness ==
    /\ last.op = "get_db"
    /\ \E h \in 1..Len(handles) : h \notin connections

\* C20: while a database is dropped and not created again its file stays
\* absent, and no record operation on it succeeds.
C20_DroppedStaysAbsent ==
    /\ \A db \in dropped : ~files[db].exists
    /\ (last.db \in dropped /\ last.op \in GateOps \ {"drop"}) => last.err # "none"

\* the raw data of the records of a find
Raws(records) == [i \in 1..Len(records) |-> raw(records[i])]

\* what a find of the given names has to return
Expected(f, names) ==
    LET present == SelectSeq(names, LAMBDA n : n \in Listed(f))
    IN [i \in 1..Len(present) |-> zread(f.members, present[i])]

\* a find through a connected handle on a database that exists
Found == last.op = "find" /\ last.connected /\ last.before.exists

\* C15 as stated: for every collection of requested names find returns one
\* Record for each requested name that is present, in request order, and
\* nothing else; a missing name is no error.
C15_FindEveryRequest ==
    Found => /\ last.err = "none"
             /\ Raws(last.found) = Expected(last.before, last.request.names)

\* C15: for every non-empty collection of requested names find returns one
\* Record for each requested name that is present, in request order, and
\* nothing for the absent ones; a missing name is no error.  An empty request
\* returns one Record for every entry of list().
C15_FindNonEmptyRequest ==
    Found => /\ last.err = "none"
             /\ last.request.names # <<>>
                => Raws(last.found) = Expected(last.before, last.request.names)
             /\ last.request.names = <<>>
                => Raws(last.found)
                   = Expected(last.before, namelist(last.before.members))

C15_Witness ==
    /\ Found
    /\ last.request = Many(<< <<"d", "/", "a">>, <<"a">> >>)
    /\ Listed(last.before) = { <<"a">> }
    /\ Len(last.found) = 1

\* C16: every Record of a find carries as record_name the one name of the
\* entry its data was read from.
C16_RecordNameIsTheName ==
    Found => \A i \in 1..Len(last.found) :
                \E n \in Listed(last.before) :
                    /\ last.found[i].record_name = One(n)
                    /\ raw(last.found[i]) = zread(last.before.members, n)

\* C19: after any sequence of successful insert, update, delete and rebuild
\* calls the names of list() are the names inserted and not deleted since,
\* names with '/' included.
C19_ContainerRefinesNameSet ==
    \A db \in DBNames : files[db].exists => Listed(files[db]) = inserted

\* a rebuild has just moved its new archive over the path
Moved == last.op \in {"delete", "update"} /\ last.err = "none" /\ ~inflight.active

\* C17: what another writer commits between a rebuild's read of the old
\* archive and its move of the new one is lost: no name that came into the
\* container in between is in it after the move.
C17_RebuildLosesCommittedInsert ==
    Moved => \A n \in Listed(last.before) \ Listed(inflight.snapshot) :
                n \notin Listed(Current)

\* a successfully inserted, never deleted record is absent after the move
C17_Witness ==
    /\ Moved
    /\ \E n \in inserted : n \in Listed(last.before) /\ n \notin Listed(Current)

\* C21: a drop that fails with NoSuchDatabaseError leaves the engine as it
\* was: the handle still has its connector and still passes the gate.
C21_FailedDropKeepsConnector ==
    (last.op = "drop" /\ last.err = "NoSuchDatabaseError")
    => /\ last.h \in connections
       /\ _validate_connection(last.h)

\* the databases whose file is in the storage folder
Available == { db \in DBNames : files[db].exists }

\* C22: the engine's databases attribute holds the names of the database
\* files that are in the storage folder now.
C22_DatabasesListsFiles == databases = Available

\* C23: create_db of a name whose file exists fails with DatabaseExists and
\* leaves the records and payloads of that database as they were; of a name
\* without a file it creates a database whose list() is empty.
C23_CreateDb ==
    last.op = "create_db"
    => IF last.before.exists
       THEN /\ last.err = "DatabaseExists"
            /\ Current = last.before
       ELSE /\ last.err = "none"
            /\ Current.exists
            /\ list_records(Current, TRUE) = [err |-> "none", names |-> <<>>]

C23_Witness ==
    /\ last.op = "create_db"
    /\ last.err = "DatabaseExists"
    /\ Listed(last.before) # {}
    /\ Listed(Current) # {}

====
